---- MODULE Spec2Model ----
(***************************************************************************)
(* Coloring Page Generator (src/app/main.cpp): the editing session of      *)
(* ColoringPageGenerator as a state machine.                               *)
(*                                                                         *)
(* A cv::Mat is a header over a reference-counted pixel buffer, so the     *)
(* model keeps a heap of buffers and the Mats (coloringPage, the entries   *)
(* of coloringPageHistory) are buffer ids; clone() allocates.  A QImage    *)
(* built over Mat::data is a raw view of a buffer (no reference count).    *)
(* Pixel data is the flat byte array of the buffer (row-major, step =      *)
(* cols * channels).                                                       *)
(***************************************************************************)
EXTENDS Integers, Sequences, FiniteSets

VARIABLES
    heap,                 \* buffer id -> Mat contents (NoMat when not allocated)
    coloringPage,         \* cv::Mat coloringPage: buffer id, 0 for the empty Mat
    coloringPageHistory,  \* std::vector<cv::Mat>: sequence of buffer ids
    drawingImage,         \* QImage* drawingImage: NullImage or a view record
    drawing,              \* bool drawing
    lastPoint,            \* QPoint lastPoint
    fillColor,            \* QColor fillColor (r, g, b)
    fillToolEnabled,      \* bool fillToolEnabled
    drawingArea,          \* size of the QLabel drawingArea
    crashed,              \* the process was ended by undefined behaviour
    lastOp,               \* outcome of the last handled event: "genOk", "genFailed",
                          \* "fillOk", "fillError", "fillIgnored", "undo", "undoNoop",
                          \* "move" (a painted segment), "crash", "other"
    strokes,              \* number of freehand segments painted (bounded)
    fillFaults,           \* number of fills that faulted after painting (bounded)
    runs,                 \* number of pipeline runs started (bounded)
    lastFill,             \* seed and color of the fill just made, when lastOp = "fillOk"
    scenario,             \* history of the session: "pre", "on", "undone", "off"
    committed,            \* rasters committed while scenario = "on", oldest first
    probe                 \* input and result of a pipeline function applied on its own

vars == <<heap, coloringPage, coloringPageHistory, drawingImage, drawing,
          lastPoint, fillColor, fillToolEnabled, drawingArea, crashed,
          lastOp, strokes, runs, fillFaults, lastFill, scenario, committed, probe>>

-----------------------------------------------------------------------------
(* Bounds of the model *)

\* Largest history length the model explores (generation and fill stop there).
MaxHist == 3
\* Largest number of paint operations in one session that no commit follows:
\* freehand segments, and fills that fault after floodFill has painted.
MaxUncommitted == 1

\* Largest number of pipeline runs (loads that pass the resize) in one session.
MaxRuns == 2

\* Size of drawingArea before the first generation (the maximized window).
Canvas == [w |-> 3, h |-> 3]

\* Addresses of pixel buffers: the history, the page, a dangling view target
\* and the two intermediate Mats of a generation.
BufIds == 1 .. (MaxHist + 4)

Abs(n) == IF n < 0 THEN -n ELSE n
Max2(a, b) == IF a > b THEN a ELSE b

-----------------------------------------------------------------------------
(* Colors, points, events *)

Black == <<0, 0, 0>>
White == <<255, 255, 255>>
Red   == <<255, 0, 0>>
\* Colors a color pick delivers.
Colors == {Black, Red}

\* Pointer positions relative to drawingArea (event->pos() - drawingArea->pos()).
\* The samples: the centre, a stroke pixel of the diamond, and a position left
\* of the canvas, all on one row.  Every handler takes any of them.
Points == {<<1, 1>>, <<0, 1>>, <<-1, 1>>}

Buttons == {"left", "right"}

-----------------------------------------------------------------------------
(* cv::Mat *)

NoMat == [rows |-> 0, cols |-> 0, cn |-> 0, data |-> <<>>]

\* The byte array f as a sequence (a tuple, so that it is computed once).
Bytes(f) == f \o <<>>

Step(m) == m.cols * m.cn

\* Mat(size, type, Scalar): every pixel set to the first cn entries of val.
MatFilled(rows, cols, cn, val) ==
    [rows |-> rows, cols |-> cols, cn |-> cn,
     data |-> Bytes([i \in 1 .. (rows * cols * cn) |-> val[((i - 1) % cn) + 1]])]

\* Coordinates and channel of the byte at 1-based index i.
ByteX(m, i) == ((i - 1) % Step(m)) \div m.cn
ByteY(m, i) == (i - 1) \div Step(m)
ByteC(m, i) == ((i - 1) % m.cn) + 1

InImage(m, p) == p[1] >= 0 /\ p[1] < m.cols /\ p[2] >= 0 /\ p[2] < m.rows

PixelAt(m, p) ==
    LET off == p[2] * Step(m) + p[1] * m.cn
    IN  SubSeq(m.data, off + 1, off + m.cn)

MatPixels(m) == {<<x, y>> : x \in 0 .. (m.cols - 1), y \in 0 .. (m.rows - 1)}

Adjacent4(p, q) == Abs(p[1] - q[1]) + Abs(p[2] - q[2]) = 1

-----------------------------------------------------------------------------
(* cv::floodFill(image, mask, seed, newVal) with loDiff = upDiff = 0 and    *)
(* flags = 4: the mask is freshly zeroed (its border set to 1 by floodFill),*)
(* so the filled set is the 4-connected component of pixels whose value     *)
(* equals their neighbour's, grown from the seed.                           *)

\* floodFill's range check: (unsigned)x >= width || (unsigned)y >= height faults.
SeedInside(m, p) == InImage(m, p)

RECURSIVE Grow(_, _, _)
Grow(m, val, S) ==
    LET N == {q \in MatPixels(m) \ S :
                 /\ PixelAt(m, q) = val
                 /\ \E s \in S : Adjacent4(s, q)}
    IN  IF N = {} THEN S ELSE Grow(m, val, S \cup N)

Component(m, seed) == Grow(m, PixelAt(m, seed), {seed})

\* The pixels floodFill recolors.
FloodRegion_Spill(m, seed) ==
    LET C == Component(m, seed)
    IN  C \cup {q \in MatPixels(m) : \E s \in C : Adjacent4(s, q)}

FloodRegion(m, seed) == Component(m, seed)

\* cv::Scalar(fillColor.red(), fillColor.green(), fillColor.blue())
ScalarOf_BGR(color) == <<color[3], color[2], color[1]>>

ScalarOf(color) == color

\* The image after floodFill; newVal is a Scalar, of which an image of cn
\* channels takes the first cn entries.
floodFill(m, seed, newVal) ==
    LET R == FloodRegion(m, seed)
    IN  [m EXCEPT !.data =
            Bytes([i \in 1 .. Len(m.data) |->
                     IF <<ByteX(m, i), ByteY(m, i)>> \in R
                     THEN newVal[ByteC(m, i)]
                     ELSE m.data[i]])]

-----------------------------------------------------------------------------
(* QImage(data, cols, rows, step, Format_RGB888): a view of a buffer *)

\* QImage* drawingImage = nullptr
NullImage == [ptr |-> FALSE, data |-> 0, cols |-> 0, rows |-> 0, step |-> 0]

\* A QImage whose construction was refused: a null image (no data, 0 x 0)
\* behind a non-null pointer.
InvalidImage == [ptr |-> TRUE, data |-> 0, cols |-> 0, rows |-> 0, step |-> 0]

\* new QImage(coloringPage.data, coloringPage.cols, coloringPage.rows, coloringPage.step, ...)
\* QImage refuses a bytesPerLine smaller than a row of the format (3 bytes per
\* pixel), which is the case over a one-channel page.
ImageOver(h, b) ==
    IF Step(h[b]) < 3 * h[b].cols
    THEN InvalidImage
    ELSE [ptr |-> TRUE, data |-> b, cols |-> h[b].cols, rows |-> h[b].rows,
          step |-> Step(h[b])]

\* The bytes the image reads and writes (three per pixel) lie inside a live
\* buffer; a null image has none.
ViewInBuffer(h, di) ==
    \/ di.data = 0
    \/ /\ h[di.data] # NoMat
       /\ (di.rows - 1) * di.step + 3 * di.cols <= Len(h[di.data].data)

Sgn(n) == IF n > 0 THEN 1 ELSE IF n < 0 THEN -1 ELSE 0

\* Pixels of the one-pixel-wide, 8-connected line between a and b, end points
\* included: one pixel per step along the longer axis, starting from the end
\* point with the smaller x, the other coordinate stepping when the line has
\* passed the middle of the next pixel (the integer Bresenham run).
LinePixels(a, b) ==
    LET s  == IF b[1] < a[1] THEN b ELSE a
        e  == IF b[1] < a[1] THEN a ELSE b
        dx == e[1] - s[1]
        dy == e[2] - s[2]
        n  == Max2(Abs(dx), Abs(dy))
        m  == IF Abs(dx) >= Abs(dy) THEN Abs(dy) ELSE Abs(dx)
        Minor(t) == IF n = 0 THEN 0 ELSE (2 * t * m + n - 1) \div (2 * n)
    IN  IF Abs(dx) >= Abs(dy)
        THEN {<<s[1] + Sgn(dx) * t, s[2] + Sgn(dy) * Minor(t)>> : t \in 0 .. n}
        ELSE {<<s[1] + Sgn(dx) * Minor(t), s[2] + Sgn(dy) * t>> : t \in 0 .. n}

\* 1-based index of channel c (1..3) of view pixel q.
ViewByte(di, q, c) == q[2] * di.step + 3 * q[1] + c

\* painter.drawLine(a, b) with pen `color` on the view di: the heap after the
\* bytes that fall inside the viewed buffer are written (QPainter clips to the
\* image rectangle, and does not paint on a null image).  Bytes past the end
\* of the buffer, or a freed buffer, are outside the model's heap.
PaintLine(h, di, a, b, color) ==
    LET Q == {q \in LinePixels(a, b) :
                 q[1] >= 0 /\ q[1] < di.cols /\ q[2] >= 0 /\ q[2] < di.rows}
        m == h[di.data]
        Hit(i) == {<<q, c>> \in Q \X (1 .. 3) : ViewByte(di, q, c) = i}
        \* Position of q along the line: the pixel painted last wins.
        T(q) == Max2(Abs(q[1] - a[1]), Abs(q[2] - a[2]))
    IN  IF di.data = 0 \/ m = NoMat THEN h
        ELSE [h EXCEPT ![di.data].data =
                 Bytes([i \in 1 .. Len(m.data) |->
                          IF Hit(i) # {}
                          THEN color[(CHOOSE qc \in Hit(i) :
                                        \A o \in Hit(i) : T(o[1]) <= T(qc[1]))[2]]
                          ELSE m.data[i]])]

-----------------------------------------------------------------------------
(* Photos and the outline pipeline of generateColoringPage *)

\* Image files the user can select: a square photo of a ring, a panorama too
\* flat for the canvas, and a file cv::imread cannot decode (an empty Mat).
Photos == {"diamond", "wide", "corrupt"}

\* image.cols and image.rows after imread
PhotoSize(photo) ==
    CASE photo = "diamond" -> [cols |-> 3, rows |-> 3]
      [] photo = "wide"    -> [cols |-> 4, rows |-> 1]
      [] OTHER             -> [cols |-> 0, rows |-> 0]

\* image.empty()
ImageEmpty(photo) == PhotoSize(photo).cols = 0 \/ PhotoSize(photo).rows = 0

\* The (a, cols, rows) with sides up to 12 for which the double quotient
\* a / (double(cols) / rows) comes out below the whole number a * rows / cols
\* (9 / (9.0 / 7) is 6.999999999999999).  The double product
\* a * (double(cols) / rows) is never below a whole a * cols / rows there.
QuotientShort == {<<9, 9, 7>>}

\* static_cast<int>(a / aspectRatio) with aspectRatio = double(cols) / rows
TruncQuotient(a, cols, rows) ==
    IF <<a, cols, rows>> \in QuotientShort
    THEN ((a * rows) \div cols) - 1
    ELSE (a * rows) \div cols

\* static_cast<int>(a * aspectRatio)
TruncProduct(a, cols, rows) == (a * cols) \div rows

\* newWidth and newHeight for an image of size ps: maxWidth and
\* int(maxWidth / aspectRatio), and when that exceeds maxHeight,
\* int(maxHeight * aspectRatio) and maxHeight.
FitSize(area, ps) ==
    LET h0 == TruncQuotient(area.w, ps.cols, ps.rows)
    IN  IF h0 > area.h
        THEN [w |-> TruncProduct(area.h, ps.cols, ps.rows), h |-> area.h]
        ELSE [w |-> area.w, h |-> h0]

TargetSize(area, photo) == FitSize(area, PhotoSize(photo))

\* cv::resize faults on an empty destination size.
ResizeFaults(size) == size.w <= 0 \/ size.h <= 0

\* Whether adaptiveThreshold marks pixel (x, y) of the photo resized to w x h
\* as foreground (darker than its neighbourhood): the content of each photo.
Ink(photo, x, y, w, h) ==
    CASE photo = "diamond" -> Abs(x - (w \div 2)) + Abs(y - (h \div 2)) = 1
      [] OTHER             -> FALSE

\* binaryImage: CV_8U, 255 on foreground.
BinaryImage(photo, size) ==
    [rows |-> size.h, cols |-> size.w, cn |-> 1,
     data |-> Bytes([i \in 1 .. (size.w * size.h) |->
                      IF Ink(photo, (i - 1) % size.w, (i - 1) \div size.w, size.w, size.h)
                      THEN 255 ELSE 0])]

\* Side of the square structuring element of the closing.
KernelSize == 30

\* Pixels of m under a k x k kernel anchored at its centre on p.
Window(m, p, k) ==
    {q \in MatPixels(m) :
        /\ q[1] >= p[1] - (k \div 2) /\ q[1] <= p[1] - (k \div 2) + k - 1
        /\ q[2] >= p[2] - (k \div 2) /\ q[2] <= p[2] - (k \div 2) + k - 1}

\* cv::dilate / cv::erode of a binary CV_8U mask (pixels outside the image do
\* not take part).
Dilate(m, k) ==
    [m EXCEPT !.data =
        Bytes([i \in 1 .. Len(m.data) |->
                 IF \E q \in Window(m, <<ByteX(m, i), ByteY(m, i)>>, k) :
                        PixelAt(m, q) = <<255>>
                 THEN 255 ELSE 0])]

Erode(m, k) ==
    [m EXCEPT !.data =
        Bytes([i \in 1 .. Len(m.data) |->
                 IF \A q \in Window(m, <<ByteX(m, i), ByteY(m, i)>>, k) :
                        PixelAt(m, q) = <<255>>
                 THEN 255 ELSE 0])]

\* erodedImage: the binary image dilated, then eroded.
ErodedImageAt(photo, size) ==
    LET binaryImage  == BinaryImage(photo, size)
        dilatedImage == Dilate(binaryImage, KernelSize)
    IN  Erode(dilatedImage, KernelSize)

\* Mat(image.size(), CV_8UC3, white) with setTo(black, binaryImage).
RenderedAt(photo, size) ==
    LET bin  == BinaryImage(photo, size)
        page == MatFilled(size.h, size.w, 3, White)
    IN  [page EXCEPT !.data =
            Bytes([i \in 1 .. Len(page.data) |->
                     IF PixelAt(bin, <<ByteX(page, i), ByteY(page, i)>>) # <<0>>
                     THEN Black[ByteC(page, i)]
                     ELSE page.data[i]])]

\* The two images of the diamond at the size of the start canvas.  A
\* generation computes them again from the file each time; they are the same
\* each time, and are kept here as values.
DiamondEroded == ErodedImageAt("diamond", Canvas)
DiamondRendered == RenderedAt("diamond", Canvas)

ErodedImage(photo, size) ==
    IF photo = "diamond" /\ size = Canvas THEN DiamondEroded ELSE ErodedImageAt(photo, size)

Rendered(photo, size) ==
    IF photo = "diamond" /\ size = Canvas THEN DiamondRendered ELSE RenderedAt(photo, size)

-----------------------------------------------------------------------------
(* Contours of the closed mask: findContours, postProcessContours and the   *)
(* contour mask of generateColoringPage.  A contour is kept as the rectangle *)
(* through its vertices: corner (x, y), extent w x h between the centres of  *)
(* its outermost pixels, and n, the number of vertices it has.               *)

\* minContourArea, the approxPolyDP tolerance and the line thickness
\* (postProcessContours(contours, 150.0, 30, 1000)), the side of kernelClosing
\* and gapAreaThreshold.
MinContourArea == 150
ApproxEpsilon == 30
Thickness == 1000
ClosingSize == 5
GapAreaThreshold == 50

\* The contour findContours (CHAIN_APPROX_SIMPLE) gives for a filled rectangle
\* of pixels: its corners; a row or column of pixels gives its two ends, one
\* pixel gives one point.
Traced(x, y, w, h) ==
    [x |-> x, y |-> y, w |-> w, h |-> h,
     n |-> IF w > 0 /\ h > 0 THEN 4 ELSE IF w + h > 0 THEN 2 ELSE 1]

\* cv::findContours on a mask whose foreground is one filled rectangle, as the
\* closing with a kernel larger than the raster leaves it (none when the mask
\* is empty).
Contours(m) ==
    LET fg == {q \in MatPixels(m) : PixelAt(m, q) # <<0>>}
        x0 == CHOOSE x \in {q[1] : q \in fg} : \A q \in fg : x <= q[1]
        x1 == CHOOSE x \in {q[1] : q \in fg} : \A q \in fg : x >= q[1]
        y0 == CHOOSE y \in {q[2] : q \in fg} : \A q \in fg : y <= q[2]
        y1 == CHOOSE y \in {q[2] : q \in fg} : \A q \in fg : y >= q[2]
    IN  IF fg = {} THEN {} ELSE {Traced(x0, y0, x1 - x0, y1 - y0)}

\* cv::contourArea: the area of the polygon through the vertices.
ContourArea(c) == IF c.n >= 3 THEN c.w * c.h ELSE 0

\* cv::approxPolyDP(contour, contour, eps, true) on a rectangle: when its
\* diagonal is no longer than eps one point is left; otherwise the two ends of
\* a diagonal stay, and the other two corners stay only when they lie farther
\* than eps from that diagonal.
approxPolyDP(c, eps) ==
    IF c.n < 4 THEN c
    ELSE IF c.w * c.w + c.h * c.h <= eps * eps THEN [c EXCEPT !.n = 1]
    ELSE IF (c.w * c.h) * (c.w * c.h) <= eps * eps * (c.w * c.w + c.h * c.h)
    THEN [c EXCEPT !.n = 2]
    ELSE c

\* postProcessContours: the contours left in the vector, simplified (lines
\* 164-171; what the loop draws on coloringPage is RedrawnPage).
postProcessContours(contours) ==
    {approxPolyDP(c, ApproxEpsilon) : c \in {k \in contours : ContourArea(k) >= MinContourArea}}

\* Pixels drawContours(..., FILLED) sets for contour c: the rectangle when it
\* still has its corners, else the line between the two points left of it, or
\* the one point.
Filled(c) ==
    IF c.n >= 3 THEN {<<x, y>> : x \in c.x .. (c.x + c.w), y \in c.y .. (c.y + c.h)}
    ELSE IF c.n = 2 THEN LinePixels(<<c.x, c.y>>, <<c.x + c.w, c.y + c.h>>)
    ELSE {<<c.x, c.y>>}

\* contourMask: the contours filled, then closed with kernelClosing.
ContourMask(size, contours) ==
    LET zero  == MatFilled(size.h, size.w, 1, <<0>>)
        drawn == [zero EXCEPT !.data =
                     Bytes([i \in 1 .. Len(zero.data) |->
                              IF \E c \in contours : <<ByteX(zero, i), ByteY(zero, i)>> \in Filled(c)
                              THEN 255 ELSE 0])]
    IN  Erode(Dilate(drawn, ClosingSize), ClosingSize)

\* The contours generateColoringPage holds after postProcessContours.
CleanedContours(photo, size) == postProcessContours(Contours(ErodedImage(photo, size)))

\* The polyline drawContours strokes for contour c.
Outline(c) ==
    IF c.n >= 3
    THEN {q \in Filled(c) : q[1] \in {c.x, c.x + c.w} \/ q[2] \in {c.y, c.y + c.h}}
    ELSE Filled(c)

\* coloringPage after the loop of postProcessContours: for each contour left,
\* its outline stroked in black with the given thickness (every pixel within
\* half the thickness of it), then the page closed with a 5 x 5 kernel.
RECURSIVE RedrawnPage(_, _)
RedrawnPage(page, contours) ==
    IF contours = {} THEN page
    ELSE LET c == CHOOSE k \in contours : TRUE
             Near(q) == \E r \in Outline(c) :
                           4 * ((q[1] - r[1]) * (q[1] - r[1]) + (q[2] - r[2]) * (q[2] - r[2]))
                              <= Thickness * Thickness
             drawn == [page EXCEPT !.data =
                          Bytes([i \in 1 .. Len(page.data) |->
                                   IF Near(<<ByteX(page, i), ByteY(page, i)>>)
                                   THEN 0 ELSE page.data[i]])]
         IN  RedrawnPage(Erode(Dilate(drawn, ClosingSize), ClosingSize), contours \ {c})

\* cv::bitwise_and(coloringPage, contourMask, coloringPage)
MaskedPage(page, mask) ==
    [page EXCEPT !.data =
        Bytes([i \in 1 .. Len(page.data) |->
                 IF mask.data[i] # 0 THEN page.data[i] ELSE 0])]

\* Mat(image.size(), CV_8UC3, white) before setTo
BlankPage(size) == MatFilled(size.h, size.w, 3, White)

\* The contours the last loop inpaints: those whose area is under
\* gapAreaThreshold.
GapContours(contours) == {k \in contours : ContourArea(k) < GapAreaThreshold}

\* Pixels of the gapMasks of the contours in gaps.
GapPixels(page, gaps) == {q \in MatPixels(page) : \E c \in gaps : q \in Filled(c)}

\* cv::inpaint(page, gapMask, page, 3, INPAINT_TELEA) over the pixels P of the
\* page rendered at lines 241-242: the pixels outside P stay, each pixel inside
\* P gets a value blended from the surroundings, which is left open here.  The
\* page is black and white, so its three channels are equal and are blended
\* alike: the value is a grey.
InpaintOutcomes(page, P) ==
    IF P = {} THEN {page}
    ELSE {[page EXCEPT !.data =
              Bytes([i \in 1 .. Len(page.data) |->
                       IF <<ByteX(page, i), ByteY(page, i)>> \in P
                       THEN v[<<ByteX(page, i), ByteY(page, i)>>]
                       ELSE page.data[i]])] :
          v \in [P -> 0 .. 255]}

-----------------------------------------------------------------------------
(* The heap of pixel buffers *)

Range(seq) == {seq[i] : i \in DOMAIN seq}

Free(h) == {b \in BufIds : h[b] = NoMat}

Lowest(S) == CHOOSE b \in S : \A c \in S : b <= c

\* Address of a new allocation: the lowest free one outside `avoid`.
AllocFresh(h, avoid) == Lowest(Free(h) \ avoid)

Alloc(h) == AllocFresh(h, {})

\* Addresses an allocation made while the view di dangles may get: a fresh
\* one, or the freed address di still points to.
AllocChoices(h, di) ==
    {AllocFresh(h, {di.data})} \cup (IF di.data \in Free(h) THEN {di.data} ELSE {})

\* Buffers whose reference count has dropped to zero are freed.
Release(h, page, hist) ==
    [b \in BufIds |-> IF b = page \/ b \in Range(hist) THEN h[b] ELSE NoMat]

\* std::vector back() and pop_back()
Back(hist) == hist[Len(hist)]
PopBack(hist) == SubSeq(hist, 1, Len(hist) - 1)

\* The program never compares or orders addresses, so states are kept up to a
\* renaming of them: the snapshots first, in order, then the page, then the
\* target of the view.
RECURSIVE Distinct(_, _)
Distinct(seq, acc) ==
    IF seq = <<>> THEN acc
    ELSE IF seq[1] = 0 \/ seq[1] \in Range(acc) THEN Distinct(Tail(seq), acc)
    ELSE Distinct(Tail(seq), Append(acc, seq[1]))

\* The state with the buffers renamed to their places in `order`.
Renamed(order, h, page, hist, di) ==
    LET New(b) == IF b = 0 THEN 0 ELSE CHOOSE n \in DOMAIN order : order[n] = b
    IN  [heap |-> [n \in BufIds |-> IF n <= Len(order) THEN h[order[n]] ELSE NoMat],
         page |-> New(page),
         hist |-> [k \in DOMAIN hist |-> New(hist[k])],
         di   |-> [di EXCEPT !.data = New(di.data)]]

Canon(h, page, hist, di) ==
    Renamed(Distinct(hist \o <<page, di.data>>, <<>>), h, page, hist, di)

-----------------------------------------------------------------------------
(* Helpers of the handlers *)

\* addToColoringPageHistory(coloringPage.clone()): push_back(page.clone()).
\* The temporary clone is freed on return; the stored snapshot is a buffer of
\* its own holding the contents of src.
addToColoringPageHistory_Drop(h, hist, src) == [heap |-> h, hist |-> hist]

addToColoringPageHistory_Alias(h, hist, src) == [heap |-> h, hist |-> Append(hist, src)]

addToColoringPageHistory(h, hist, src) ==
    LET n == Alloc(h)
    IN  [heap |-> [h EXCEPT ![n] = h[src]], hist |-> Append(hist, n)]

\* if (drawingImage && fillToolEnabled)
FillArmed_NoMode(di, enabled) == di # NullImage

FillArmed(di, enabled) == di # NullImage /\ enabled

\* if (coloringPageHistory.size() > 1)
CanUndo(hist) == Len(hist) > 1

\* The snapshot undo clones: back() after pop_back().
UndoSource_Top(hist) == Back(hist)

UndoSource(hist) == Back(PopBack(hist))

\* drawingArea->rect().contains(currentPoint)
RectContains_Any(area, p) == TRUE

RectContains(area, p) == p[1] >= 0 /\ p[1] < area.w /\ p[2] >= 0 /\ p[2] < area.h

\* Bookkeeping of the session so far (not program state): a session is "on"
\* from a successful generation while only fills, draws, color picks and tool
\* toggles follow; its first undo makes it "undone"; everything else ends it.
ScenarioAfter(op) ==
    CASE op = "genOk" -> "on"
      [] op = "genFailed" /\ scenario # "pre" -> "off"
      [] op = "genFailed" /\ scenario = "pre" -> "pre"
      [] op = "undo" /\ scenario = "on" -> "undone"
      [] op \in {"undo", "undoNoop"} /\ scenario # "pre" -> "off"
      [] scenario = "undone" -> "off"
      [] OTHER -> scenario

\* The rasters committed in the session, oldest first; `raster` is the working
\* raster when the handler returns.
CommittedAfter(op, raster) ==
    LET sc == ScenarioAfter(op)
    IN  IF op = "genOk" THEN <<raster>>
        ELSE IF sc = "on"
        THEN IF op = "fillOk" THEN Append(committed, raster) ELSE committed
        ELSE IF sc = "undone" THEN committed ELSE <<>>

NoFill == [seed |-> <<>>, color |-> <<>>, again |-> FALSE]

\* What every handler records about itself.
Record(op, raster) ==
    /\ lastOp' = op
    /\ op # "fillOk" => lastFill' = NoFill
    /\ scenario' = ScenarioAfter(op)
    /\ committed' = CommittedAfter(op, raster)

Done(op, raster) == Record(op, raster) /\ UNCHANGED probe

\* Undefined behaviour that ends the process.
Crash ==
    /\ crashed' = TRUE
    /\ lastOp' = "crash"
    /\ lastFill' = NoFill
    /\ UNCHANGED <<scenario, committed, probe>>

\* The Mats and the view a handler leaves behind.
Install(h, page, hist, di) ==
    \E c \in {Canon(h, page, hist, di)} :
        /\ heap' = c.heap
        /\ coloringPage' = c.page
        /\ coloringPageHistory' = c.hist
        /\ drawingImage' = c.di

mats == <<heap, coloringPage, coloringPageHistory, drawingImage>>

\* The working raster (the empty Mat before the first generation).
Raster == IF coloringPage = 0 THEN NoMat ELSE heap[coloringPage]

-----------------------------------------------------------------------------
\* No pipeline function is being applied on its own.
NoProbe == [kind |-> "none", stage |-> "out"]

\* The session after the constructor has run, in a window that gives
\* drawingArea the size area.
Started(area) ==
    /\ heap = [b \in BufIds |-> NoMat]
    /\ coloringPage = 0
    /\ coloringPageHistory = <<>>
    /\ drawingImage = NullImage                \* line 92
    /\ drawing = FALSE                         \* line 93
    /\ lastPoint = <<0, 0>>                    \* QPoint()
    /\ fillColor = Black                       \* QColor(): red() = green() = blue() = 0
    /\ fillToolEnabled \in BOOLEAN             \* never initialized: indeterminate
    /\ drawingArea = area
    /\ crashed = FALSE
    /\ lastOp = "init"
    /\ strokes = 0
    /\ runs = 0
    /\ fillFaults = 0
    /\ lastFill = NoFill
    /\ scenario = "pre"
    /\ committed = <<>>

Init == Started(Canvas) /\ probe = NoProbe

-----------------------------------------------------------------------------
(* Pointer handlers *)

mousePressEvent(p, button) ==
    /\ ~crashed
    /\ IF button = "left" /\ drawingImage # NullImage
       THEN /\ drawing' = TRUE
            /\ lastPoint' = p
       ELSE UNCHANGED <<drawing, lastPoint>>
    /\ Done("other", Raster)
    /\ UNCHANGED <<mats, fillColor, fillToolEnabled, drawingArea, crashed, strokes, runs, fillFaults>>

mouseReleaseEvent(button) ==
    /\ ~crashed
    /\ IF button = "left" /\ drawingImage # NullImage
       THEN drawing' = FALSE
       ELSE UNCHANGED drawing
    /\ Done("other", Raster)
    /\ UNCHANGED <<mats, lastPoint, fillColor, fillToolEnabled, drawingArea, crashed,
                   strokes, runs, fillFaults>>

\* A move that paints: QPainter writes through drawingImage into the viewed
\* buffer, then QPixmap::fromImage reads the whole view.  A view that does not
\* lie inside a live buffer (the page it was built over has been replaced)
\* makes both undefined: the process is ended, or it goes on with the bytes
\* that landed in the heap.
mouseMovePaints(p) ==
    /\ strokes + fillFaults < MaxUncommitted
    /\ \/ /\ strokes' = strokes + 1
          /\ lastPoint' = p
          /\ heap' = PaintLine(heap, drawingImage, lastPoint, p, fillColor)
          /\ Done("move", heap'[coloringPage])
          /\ UNCHANGED crashed
       \/ /\ ~ViewInBuffer(heap, drawingImage)
          /\ Crash
          /\ UNCHANGED <<heap, lastPoint, strokes>>

mouseMoveEvent(p) ==
    /\ ~crashed
    /\ IF drawing /\ drawingImage # NullImage /\ RectContains(drawingArea, p)
       THEN mouseMovePaints(p)
       ELSE /\ Done("other", Raster)
            /\ UNCHANGED <<heap, lastPoint, strokes, crashed>>
    /\ UNCHANGED <<coloringPage, coloringPageHistory, drawingImage, drawing, fillColor,
                   fillToolEnabled, drawingArea, runs, fillFaults>>

-----------------------------------------------------------------------------
(* Fill *)

\* The call of the try block (lines 140-148) at which a cv::Exception for
\* want of memory is raised: none, Mat::zeros of line 141, or the clone of
\* line 147.
FillFaults == {"none", "mask", "commit"}

\* The try block of mouseDoubleClickEvent for a seed floodFill accepts: fill in
\* place, rebuild drawingImage over the page, show it, commit a clone.  When
\* the clone faults the page is already filled and shown, and the catch block
\* of line 149 only reports.
mouseDoubleClickFills(p, fault) ==
    /\ \/ fault = "commit" /\ strokes + fillFaults < MaxUncommitted
       \/ fault = "none" /\ Len(coloringPageHistory) < MaxHist
    /\ \E filled \in {floodFill(heap[coloringPage], p, ScalarOf(fillColor))} :
       \E h1 \in {[heap EXCEPT ![coloringPage] = filled]} :
       \E di \in {ImageOver(h1, coloringPage)} :
          \/ /\ fault = "commit"
             /\ fillFaults' = fillFaults + 1
             /\ Install(h1, coloringPage, coloringPageHistory, di)
             /\ Done("fillError", filled)
          \/ /\ fault = "none"
             /\ UNCHANGED fillFaults
             /\ \E res \in {addToColoringPageHistory(h1, coloringPageHistory, coloringPage)} :
                   Install(res.heap, coloringPage, res.hist, di)
             /\ Done("fillOk", filled)
             /\ lastFill' = [seed |-> p, color |-> fillColor,
                             again |-> lastFill.seed = p /\ lastFill.color = fillColor]
    /\ UNCHANGED crashed

mouseDoubleClickEvent(p, fault) ==
    /\ ~crashed
    /\ IF ~FillArmed(drawingImage, fillToolEnabled)
       THEN /\ Done("fillIgnored", Raster)
            /\ UNCHANGED <<mats, crashed, fillFaults>>
       ELSE IF fault = "mask"
       THEN \* cv::Exception from Mat::zeros (line 141), caught at line 149
            /\ Done("fillError", Raster)
            /\ UNCHANGED <<mats, crashed, fillFaults>>
       ELSE IF ~SeedInside(heap[coloringPage], p)
       THEN \* cv::Exception "Seed point is outside of image", caught at line 149
            /\ Done("fillError", Raster)
            /\ UNCHANGED <<mats, crashed, fillFaults>>
       ELSE mouseDoubleClickFills(p, fault)
    /\ UNCHANGED <<drawing, lastPoint, fillColor, fillToolEnabled, drawingArea, strokes,
                   runs>>

-----------------------------------------------------------------------------
(* Undo *)

undoRestores ==
    /\ \E src \in {heap[UndoSource(coloringPageHistory)]} :
       \E hist1 \in {PopBack(coloringPageHistory)} :
       \E h1 \in {Release(heap, coloringPage, hist1)} :          \* pop_back() frees the top
       \E n \in {Alloc(h1)} :                                   \* back().clone()
       \E h2 \in {Release([h1 EXCEPT ![n] = src], n, hist1)} :  \* the old page is freed
          /\ Install(h2, n, hist1, ImageOver(h2, n))
          /\ Done("undo", src)
    /\ UNCHANGED crashed

undoLastAction ==
    /\ ~crashed
    /\ IF CanUndo(coloringPageHistory)
       THEN undoRestores
       ELSE /\ Done("undoNoop", Raster)
            /\ UNCHANGED <<mats, crashed>>
    /\ UNCHANGED <<drawing, lastPoint, fillColor, fillToolEnabled, drawingArea, strokes,
                   runs, fillFaults>>

-----------------------------------------------------------------------------
(* Controls *)

setFillColor(c) ==
    /\ ~crashed
    /\ fillColor' = c
    /\ Done("other", Raster)
    /\ UNCHANGED <<mats, drawing, lastPoint, fillToolEnabled, drawingArea, crashed,
                   strokes, runs, fillFaults>>

toggleFillTool(checked) ==
    /\ ~crashed
    /\ fillToolEnabled' = checked
    /\ Done("other", Raster)
    /\ UNCHANGED <<mats, drawing, lastPoint, fillColor, drawingArea, crashed, strokes,
                   runs, fillFaults>>

\* The file names the save dialog returns: none (cancelled) or one.
SavePaths == {"", "out.png"}

\* drawingImage->save reads every pixel of the view; a view that does not lie
\* inside a live buffer makes the read undefined: the process is ended, or it
\* goes on.  The handler changes nothing in the session.
saveImage(savePath) ==
    /\ ~crashed
    /\ \/ /\ Done("other", Raster)
          /\ UNCHANGED crashed
       \/ /\ savePath # ""
          /\ drawingImage # NullImage
          /\ ~ViewInBuffer(heap, drawingImage)
          /\ Crash
    /\ UNCHANGED <<mats, drawing, lastPoint, fillColor, fillToolEnabled, drawingArea,
                   strokes, runs, fillFaults>>

-----------------------------------------------------------------------------
(* Generation *)

\* Where a native fault (cv::Exception) can interrupt the try block after the
\* first resize and setFixedSize: "early" before the page is assigned (lines
\* 208-223), "contours" while tracing, post-processing and masking (227-238),
\* "mask" when the white Mat is built (241, after the bitwise_and of 239),
\* "blank" when the strokes are set (242), "commit" while inpainting and when
\* the snapshot is cloned (244-255); "none" for no fault.
Faults == {"none", "early", "contours", "mask", "blank", "commit"}

\* imread gave an empty Mat, or cv::resize refused the target size: nothing
\* has been assigned yet.
generateRejected(photo) ==
    /\ \/ /\ ImageEmpty(photo)
          /\ Done("genFailed", Raster)
       \/ /\ ~ImageEmpty(photo)
          /\ ResizeFaults(TargetSize(drawingArea, photo))
          /\ Done("genFailed", Raster)
    /\ UNCHANGED <<mats, drawingArea, runs, fillFaults>>

\* The pipeline from line 206 on, for the contours `traced` that findContours
\* returns at line 228 and the contours `done` that have been inpainted when
\* the handler leaves the loop of lines 245-253.
generateTraced(photo, fault, traced, done) ==
    LET hist == coloringPageHistory
        \* line 225: coloringPage = erodedImage.clone(); the old page is freed.
        \* m is what the later lines have made of the clone in place.
        Page1(n1, m) == Release([heap EXCEPT ![n1] = m], n1, hist)
        \* line 241: coloringPage = the new CV_8UC3 Mat (m); the clone, at n1 in
        \* the heap h1, is freed
        Page2(h1, n2, m) == Release([h1 EXCEPT ![n2] = m], n2, hist)
    IN  /\ ~ImageEmpty(photo)
        /\ runs < MaxRuns
        /\ fault = "none" => Len(hist) < MaxHist
        /\ runs' = runs + 1
        /\ UNCHANGED fillFaults
        /\ \E size \in {TargetSize(drawingArea, photo)} :
           \E kept \in {postProcessContours(traced)} :                  \* line 230
              /\ ~ResizeFaults(size)
              /\ drawingArea' = size                    \* line 206
              /\ done \subseteq GapContours(kept)
              /\ fault = "none" => done = GapContours(kept)
              /\ fault \notin {"none", "commit"} => done = {}
              /\ \/ /\ fault = "early"
                    /\ UNCHANGED mats
                    /\ Record("genFailed", Raster)
                 \/ /\ fault \in {"contours", "mask"}
                    /\ \E eroded \in {ErodedImage(photo, size)} :
                       \E redrawn \in {RedrawnPage(eroded, kept)} :     \* lines 173-177
                       \E m \in IF fault = "contours"
                                THEN {eroded, redrawn}
                                ELSE {MaskedPage(redrawn, ContourMask(size, kept))} :  \* line 239
                       \E n1 \in AllocChoices(heap, drawingImage) :
                          /\ Install(Page1(n1, m), n1, hist, drawingImage)
                          /\ Record("genFailed", m)
                 \/ /\ fault \in {"blank", "commit", "none"}
                    /\ \E eroded \in {ErodedImage(photo, size)} :
                       \E h1 \in {Page1(Alloc(heap), eroded)} :
                       \E rendered \in {Rendered(photo, size)} :        \* lines 241-242
                       \E m \in IF fault = "blank"
                                THEN {BlankPage(size)}
                                ELSE InpaintOutcomes(rendered, GapPixels(rendered, done)) :
                          IF fault = "none"
                          THEN \E n2 \in {Alloc(h1)} :
                               \E res \in {addToColoringPageHistory(Page2(h1, n2, m), hist, n2)} :
                                  /\ Install(res.heap, n2, res.hist, ImageOver(res.heap, n2))  \* line 257
                                  /\ Record("genOk", m)
                          ELSE \E n2 \in AllocChoices(h1, drawingImage) :
                                  /\ Install(Page2(h1, n2, m), n2, hist, drawingImage)
                                  /\ Record("genFailed", m)

\* The pipeline on the contours of the closed mask of the photo.
generateRuns(photo, fault) ==
    /\ runs < MaxRuns
    /\ ~ImageEmpty(photo)
    /\ ~ResizeFaults(TargetSize(drawingArea, photo))
    /\ fault = "none" => Len(coloringPageHistory) < MaxHist
    /\ \E traced \in {Contours(ErodedImage(photo, TargetSize(drawingArea, photo)))} :
          \E done \in SUBSET GapContours(postProcessContours(traced)) :
             generateTraced(photo, fault, traced, done)
    /\ UNCHANGED probe

generateColoringPage(photo, fault) ==
    /\ ~crashed
    /\ \/ fault = "none" /\ generateRejected(photo)
       \/ generateRuns(photo, fault)
    /\ UNCHANGED <<drawing, lastPoint, fillColor, fillToolEnabled, crashed, strokes>>

-----------------------------------------------------------------------------
Next ==
    \/ \E photo \in Photos, fault \in Faults : generateColoringPage(photo, fault)
    \/ \E p \in Points, b \in Buttons : mousePressEvent(p, b)
    \/ \E p \in Points : mouseMoveEvent(p)
    \/ \E b \in Buttons : mouseReleaseEvent(b)
    \/ \E p \in Points, fault \in FillFaults : mouseDoubleClickEvent(p, fault)
    \/ \E c \in Colors : setFillColor(c)
    \/ \E checked \in BOOLEAN : toggleFillTool(checked)
    \/ undoLastAction
    \/ \E savePath \in SavePaths : saveImage(savePath)

Spec == Init /\ [][Next]_vars

-----------------------------------------------------------------------------
(* Properties of the undo history *)

\* The snapshot at position i of the history (1 = oldest).
Snapshot(i) == heap[coloringPageHistory[i]]

\* The newest snapshot.
Top == Snapshot(Len(coloringPageHistory))

\* C1: in a session of one successful generation, the first of the process or
\* a later one, followed by N >= 1 successful fills (commit 0 the baseline,
\* fill k commit k; strokes, color picks and tool toggles may come in
\* between), one undo leaves the working raster equal to the raster of commit
\* N-1 and the history with N entries.
C1_UndoRestoresPreviousCommit ==
    (lastOp = "undo" /\ scenario = "undone" /\ Len(committed) >= 2) =>
        LET N == Len(committed) - 1
        IN  /\ Raster = committed[N]
            /\ Len(coloringPageHistory) = N

\* C2: once a generation has succeeded the history is never empty again, and
\* an undo on a history of exactly one snapshot changes neither the raster nor
\* the history and raises nothing.
C2_HistoryNeverEmptied ==
    [][ /\ lastOp' = "genOk" => coloringPageHistory' # <<>>
        /\ coloringPageHistory # <<>> => coloringPageHistory' # <<>>
        /\ (Len(coloringPageHistory) = 1 /\ undoLastAction) =>
              /\ UNCHANGED <<heap, coloringPage, coloringPageHistory, crashed>>
              /\ lastOp' = "undoNoop" ]_vars

\* An undo was requested on a history holding only the baseline.
C2_Witness ==
    /\ lastOp = "undoNoop"
    /\ Len(coloringPageHistory) = 1
    /\ Top = Raster

\* C3: every successful generation leaves a history of exactly one snapshot,
\* a copy of the freshly produced raster.
C3_GenerationResetsHistory ==
    lastOp = "genOk" => (Len(coloringPageHistory) = 1 /\ Snapshot(1) = Raster)

\* C4: right after a commit (successful generation or fill) or an effective
\* undo, the working raster equals, pixel for pixel, the newest snapshot.
C4_RasterEqualsTop ==
    lastOp \in {"genOk", "fillOk", "undo"} =>
        (coloringPageHistory # <<>> /\ Raster = Top)

\* An effective undo that took back a fill and a stroke: the raster is the
\* snapshot now on top, which differs from the one popped.
C4_Witness ==
    /\ lastOp = "undo"
    /\ strokes = 1
    /\ Len(coloringPageHistory) = 2
    /\ Raster = Top
    /\ Snapshot(1) # Top

\* C5: no snapshot shares its pixel buffer with the working raster or with
\* another snapshot; a snapshot keeps its contents for as long as it is in the
\* history, whatever is painted or filled on the working raster, and a paint
\* or fill step removes none.
C5_SnapshotsNeverAliased ==
    [][ /\ \A i \in DOMAIN coloringPageHistory' :
              /\ coloringPageHistory'[i] # coloringPage'
              /\ \A j \in DOMAIN coloringPageHistory' :
                    i # j => coloringPageHistory'[i] # coloringPageHistory'[j]
        /\ \A i \in DOMAIN coloringPageHistory \cap DOMAIN coloringPageHistory' :
              heap'[coloringPageHistory'[i]] = heap[coloringPageHistory[i]]
        /\ lastOp' \in {"move", "fillOk"} =>
              Len(coloringPageHistory') >= Len(coloringPageHistory) ]_vars

\* A painted segment changed the working raster while two snapshots were
\* stored: the raster now differs from the newest of them.
C5_Witness ==
    /\ lastOp = "move"
    /\ Len(coloringPageHistory) = 2
    /\ coloringPage # 0
    /\ Raster # Top

-----------------------------------------------------------------------------
(* Properties of the fill *)

\* The region of a three-channel raster bounded by black pixels that contains
\* p: the non-black pixels 4-connected to p (empty when p is itself black).
RECURSIVE GrowOpen(_, _)
GrowOpen(m, S) ==
    LET N == {q \in MatPixels(m) \ S :
                 /\ PixelAt(m, q) # Black
                 /\ \E r \in S : Adjacent4(r, q)}
    IN  IF N = {} THEN S ELSE GrowOpen(m, S \cup N)

OpenRegion(m, p) == IF PixelAt(m, p) = Black THEN {} ELSE GrowOpen(m, {p})

\* p lies in a region closed off by a contour: the region does not reach the
\* edge of the raster.
Enclosed(m, p) ==
    /\ m.cn = 3
    /\ InImage(m, p)
    /\ OpenRegion(m, p) # {}
    /\ \A q \in OpenRegion(m, p) :
          q[1] > 0 /\ q[1] < m.cols - 1 /\ q[2] > 0 /\ q[2] < m.rows - 1

\* The double-click is taken as a fill: drawingImage is set and the tool is on.
Armed == drawingImage # NullImage /\ fillToolEnabled

\* C6: a double-click in fill mode whose fill faults (the seed lies outside
\* the raster, or a call of the try block raises) is reported, and the
\* working raster, the history and the displayed image are exactly as before.
C6_FillAllOrNothing ==
    [][ \A p \in Points, f \in FillFaults :
           (/\ Armed
            /\ ~InImage(Raster, p) \/ f # "none"
            /\ mouseDoubleClickEvent(p, f)) =>
               /\ lastOp' = "fillError"
               /\ UNCHANGED <<heap, coloringPage, coloringPageHistory, drawingImage>> ]_vars

\* C7: a fill at any in-bounds seed of a freshly generated page changes no
\* black stroke pixel and changes only pixels of the region, bounded by
\* strokes, that contains the seed.
C7_StrokesAreBarriers ==
    [][ \A p \in Points, f \in FillFaults :
           (/\ lastOp = "genOk"
            /\ InImage(Raster, p)
            /\ mouseDoubleClickEvent(p, f)
            /\ lastOp' = "fillOk") =>
               \A q \in MatPixels(Raster) :
                  /\ PixelAt(Raster, q) = Black => PixelAt(Raster', q) = Black
                  /\ PixelAt(Raster', q) # PixelAt(Raster, q) => q \in OpenRegion(Raster, p) ]_vars

\* C8: after a double-click in fill mode at a seed enclosed by a contour has
\* succeeded, the seed pixel has the fill color, the history has grown by one
\* snapshot, and the new top is a buffer of its own equal to the filled
\* raster, above the snapshots that were there.
C8_FillCommits ==
    [][ \A p \in Points, f \in FillFaults :
           (/\ Armed
            /\ lastOp' = "fillOk"
            /\ Enclosed(Raster, p)
            /\ mouseDoubleClickEvent(p, f)) =>
               /\ PixelAt(Raster', p) = fillColor
               /\ Len(coloringPageHistory') = Len(coloringPageHistory) + 1
               /\ Top' = Raster'
               /\ coloringPageHistory'[Len(coloringPageHistory')] # coloringPage'
               /\ \A i \in DOMAIN coloringPageHistory :
                     heap'[coloringPageHistory'[i]] = heap[coloringPageHistory[i]] ]_vars

\* The centre of the ring was filled red on the freshly generated page.
C8_Witness ==
    /\ lastOp = "fillOk"
    /\ lastFill.seed = <<1, 1>> /\ lastFill.color = Red
    /\ Len(coloringPageHistory) = 2
    /\ Enclosed(Snapshot(1), <<1, 1>>)
    /\ PixelAt(Snapshot(1), <<1, 1>>) = White
    /\ PixelAt(Raster, <<1, 1>>) = Red
    /\ Top = Raster

\* C9: a fill at the seed and with the color of the successful fill made just
\* before it leaves the working raster as that fill left it.
C9_FillIdempotent ==
    [][ \A p \in Points, f \in FillFaults :
           (/\ lastOp = "fillOk"
            /\ lastFill.seed = p /\ lastFill.color = fillColor
            /\ mouseDoubleClickEvent(p, f)
            /\ lastOp' = "fillOk") =>
               Raster' = Raster ]_vars

\* Two fills in a row at one seed with one color: the first changed the
\* raster, the second committed an equal one.
C9_Witness ==
    /\ lastOp = "fillOk"
    /\ lastFill.again
    /\ lastFill.color = Red
    /\ Len(coloringPageHistory) = 3
    /\ Snapshot(1) # Snapshot(2)
    /\ Snapshot(2) = Top
    /\ Raster = Top

\* C10: a double-click while the fill tool is off, or while there is no
\* working raster, changes neither the working raster nor the history; and
\* fillToolEnabled changes in no step other than toggleFillTool.
C10_FillOnlyWhenArmed ==
    [][ /\ \A p \in Points, f \in FillFaults :
              ((~fillToolEnabled \/ coloringPage = 0) /\ mouseDoubleClickEvent(p, f)) =>
                  /\ lastOp' = "fillIgnored"
                  /\ UNCHANGED <<heap, coloringPage, coloringPageHistory>>
        /\ fillToolEnabled' # fillToolEnabled =>
              \E checked \in BOOLEAN : toggleFillTool(checked) ]_vars

\* A double-click on a generated page was ignored because the tool was off.
C10_Witness ==
    /\ lastOp = "fillIgnored"
    /\ ~fillToolEnabled
    /\ drawingImage # NullImage
    /\ coloringPage # 0

-----------------------------------------------------------------------------
(* Properties of the freehand gestures *)

\* The step is the handling of a press, a move or a release.
GestureStep ==
    /\ lastOp' \in {"other", "move", "crash"}
    /\ \/ \E p \in Points, b \in Buttons : mousePressEvent(p, b)
       \/ \E p \in Points : mouseMoveEvent(p)
       \/ \E b \in Buttons : mouseReleaseEvent(b)

\* C11: a press, a move or a release leaves the history with the same number
\* of snapshots, each with the contents it had (a move may change the working
\* raster in place).
C11_GesturesLeaveHistory ==
    [][ GestureStep =>
           /\ Len(coloringPageHistory') = Len(coloringPageHistory)
           /\ \A i \in DOMAIN coloringPageHistory :
                 heap'[coloringPageHistory'[i]] = heap[coloringPageHistory[i]] ]_vars

\* A stroke was painted on the baseline of a session: the raster changed, the
\* history still holds the one snapshot committed by the generation.
C11_Witness ==
    /\ lastOp = "move"
    /\ scenario = "on"
    /\ Len(coloringPageHistory) = 1
    /\ committed = <<Top>>
    /\ Raster # Top

-----------------------------------------------------------------------------
(* Properties of the generation *)

\* drawingImage shows the working raster: it is a view of the page's buffer,
\* of the page's size, lying inside it.
ShowsPage(h, page, di) ==
    /\ di.data # 0
    /\ di.data = page
    /\ di.cols = h[page].cols /\ di.rows = h[page].rows
    /\ ViewInBuffer(h, di)

\* C12: a generation that fails while a generated page is being edited leaves
\* the working raster, the history and the raster edited through drawingImage
\* exactly as they were.
C12_FailedGenerationLeavesState ==
    [][ (lastOp' = "genFailed" /\ coloringPage # 0 /\ drawingImage # NullImage) =>
           /\ Raster' = Raster
           /\ Len(coloringPageHistory') = Len(coloringPageHistory)
           /\ \A i \in DOMAIN coloringPageHistory :
                 heap'[coloringPageHistory'[i]] = heap[coloringPageHistory[i]]
           /\ ShowsPage(heap, coloringPage, drawingImage) =>
                 ShowsPage(heap', coloringPage', drawingImage') ]_vars

-----------------------------------------------------------------------------
\* The raw threshold mask intersected with the filled, closed mask of the
\* cleaned contours.
IntersectedMask(photo, size) ==
    LET bin  == BinaryImage(photo, size)
        mask == ContourMask(size, CleanedContours(photo, size))
    IN  [bin EXCEPT !.data =
            Bytes([i \in 1 .. Len(bin.data) |->
                     IF bin.data[i] # 0 /\ mask.data[i] # 0 THEN 255 ELSE 0])]

\* C13: the page a successful generation renders is black exactly on the
\* pixels of the intersected mask and white elsewhere.
C13_RendersIntersectedMask ==
    [][ \A photo \in Photos :
           (lastOp' = "genOk" /\ generateColoringPage(photo, "none")) =>
               \A q \in MatPixels(Raster') :
                  /\ PixelAt(Raster', q) \in {Black, White}
                  /\ PixelAt(Raster', q) = Black <=>
                        PixelAt(IntersectedMask(photo, drawingArea'), q) # <<0>> ]_vars

-----------------------------------------------------------------------------
\* The stages of generateColoringPage applied on their own, to photos, canvases
\* and contours larger than the ones of the session above.

MaxPhotoSide == 9
MaxContourSide == 14

\* drawingArea->width() and height() before a generation
CanvasSides == {3, 6, 9}

\* The size of a decoded photo.
FitInputs ==
    [kind : {"fit"}, stage : {"in"},
     ps : [cols : 1 .. MaxPhotoSide, rows : 1 .. MaxPhotoSide]]

\* One contour as findContours returns it: an upright rectangle.
ContourInputs ==
    [kind : {"contour"}, stage : {"in"},
     c : {Traced(0, 0, w, h) : w \in 0 .. MaxContourSide, h \in 0 .. MaxContourSide}]

\* Lines 192-208: the target size from the canvas and the photo, cv::resize to
\* it (the exception leaves through the catch block with nothing changed),
\* drawingArea->setFixedSize, and the second resize to the size of drawingArea.
resizeImage ==
    /\ probe.kind = "fit" /\ probe.stage = "in"
    /\ LET size == FitSize(drawingArea, probe.ps)
       IN  IF ResizeFaults(size)
           THEN /\ probe' = [kind |-> "fit", stage |-> "out", area |-> drawingArea,
                             ps |-> probe.ps, size |-> size, resized |-> FALSE,
                             image |-> probe.ps]
                /\ UNCHANGED drawingArea
           ELSE /\ probe' = [kind |-> "fit", stage |-> "out", area |-> drawingArea,
                             ps |-> probe.ps, size |-> size, resized |-> TRUE,
                             image |-> [cols |-> size.w, rows |-> size.h]]
                /\ drawingArea' = size
    /\ UNCHANGED <<mats, drawing, lastPoint, fillColor, fillToolEnabled,
                   crashed, lastOp, strokes, runs, fillFaults, lastFill, scenario, committed>>

\* generateColoringPage on the diamond with findContours returning the one
\* contour of the probe: the pipeline runs on it to the end or to a fault, and
\* the probe records what postProcessContours left of the contour and which
\* contours the last loop has inpainted.
generateOnContour ==
    /\ probe.kind = "contour" /\ probe.stage = "in"
    /\ ~crashed
    /\ LET kept == postProcessContours({probe.c})
       IN  \E fault \in Faults, done \in SUBSET GapContours(kept) :
              /\ generateTraced("diamond", fault, {probe.c}, done)
              /\ probe' = [kind |-> "contour", stage |-> "out", c |-> probe.c,
                           kept |-> kept, inpainted |-> done]
    /\ UNCHANGED <<drawing, lastPoint, fillColor, fillToolEnabled, crashed, strokes>>

PipelineInit ==
    \/ /\ \E area \in [w : CanvasSides, h : CanvasSides] : Started(area)
       /\ probe \in FitInputs
    \/ /\ Started(Canvas)
       /\ probe \in ContourInputs

PipelineNext == resizeImage \/ generateOnContour

PipelineSpec == PipelineInit /\ [][PipelineNext]_vars

\* size exceeds the canvas in neither axis.
Fits(size, area) == size.w <= area.w /\ size.h <= area.h

\* size is the exact ratio of ps truncated: one side of it, scaled by the
\* ratio, truncates to the other.
RatioTruncated(size, ps) ==
    \/ size.h = (size.w * ps.rows) \div ps.cols
    \/ size.w = (size.h * ps.cols) \div ps.rows

Binding(size, area) == size.w = area.w \/ size.h = area.h

\* C14: for every photo size and canvas size the generation produces a
\* raster whose size keeps the photo's ratio up to truncation, fits the canvas,
\* and meets the canvas on one axis.
C14_TargetSizeFitsCanvas ==
    (probe.kind = "fit" /\ probe.stage = "out") =>
        /\ probe.resized
        /\ probe.image = [cols |-> probe.size.w, rows |-> probe.size.h]
        /\ drawingArea = probe.size
        /\ RatioTruncated(probe.size, probe.ps)
        /\ Fits(probe.size, probe.area)
        /\ Binding(probe.size, probe.area)

-----------------------------------------------------------------------------
\* Strokes were drawn on the raster since the newest commit of a session that
\* has had one successful generation and no undo yet.
StrokesOnTop ==
    /\ lastOp = "move" /\ scenario = "on"
    /\ Raster # Top

\* C15 as stated: an undo after freehand drawing leaves the working raster
\* equal to the snapshot that was top when the strokes were drawn, whatever the
\* size of the history.
C15_UndoRevertsToTop ==
    [][ (StrokesOnTop /\ undoLastAction) => Raster' = Top ]_vars

\* C15 amended: an undo after freehand drawing on a history of more than one
\* snapshot removes the top snapshot and leaves the working raster equal to the
\* snapshot below it; on a history holding only the baseline it changes
\* nothing, and the strokes stay on the raster.
C15_UndoDropsTopCommit ==
    [][ (StrokesOnTop /\ undoLastAction) =>
            LET N == Len(coloringPageHistory)
            IN  IF N > 1
                THEN /\ Raster' = Snapshot(N - 1)
                     /\ Len(coloringPageHistory') = N - 1
                     /\ lastOp' = "undo"
                ELSE /\ Raster' = Raster
                     /\ UNCHANGED <<heap, coloringPage, coloringPageHistory>>
                     /\ lastOp' = "undoNoop" ]_vars

\* An undo was requested with strokes on the raster and only the baseline in
\* the history of the only generation: the strokes are still there.
C15_Witness ==
    /\ lastOp = "undoNoop" /\ runs = 1 /\ strokes = 1
    /\ Len(coloringPageHistory) = 1
    /\ Raster # Top

-----------------------------------------------------------------------------
\* C16: a move changes the working raster or the last accepted sample only
\* when a working raster exists, the left button went down with no release
\* since (drawing) and the sample is inside the raster; it then accepts the
\* sample.  Drawn through a view of the working raster, every pixel the move
\* changes lies on the segment from the last accepted sample to it and takes
\* the fill colour.  drawing is raised only by a left press and is down after
\* a left release.
C16_MoveDrawsOnlyWhenDrawing ==
    [][ /\ \A p \in Points : mouseMoveEvent(p) =>
              /\ (Raster' # Raster \/ lastPoint' # lastPoint) =>
                    /\ coloringPage # 0 /\ drawing /\ InImage(Raster, p)
                    /\ lastPoint' = p
              /\ ShowsPage(heap, coloringPage, drawingImage) =>
                    \A q \in MatPixels(Raster) :
                       PixelAt(Raster', q) # PixelAt(Raster, q) =>
                          /\ q \in LinePixels(lastPoint, p)
                          /\ PixelAt(Raster', q) = fillColor
        /\ (drawing' /\ ~drawing) => \E p \in Points : mousePressEvent(p, "left")
        /\ mouseReleaseEvent("left") => ~drawing' ]_vars

\* A move has just drawn a segment of more than one pixel in red.
C16_Witness ==
    /\ lastOp = "move" /\ drawing /\ fillColor = Red
    /\ Cardinality({q \in MatPixels(Raster) : PixelAt(Raster, q) = Red}) > 1

-----------------------------------------------------------------------------
\* C17: the inpainting loop touches only contours whose area, measured after
\* the simplification, is under 50, and no contour that passed the filter
\* (area at least 150) is ever inpainted.
C17_NoKeptContourInpainted ==
    (probe.kind = "contour" /\ probe.stage = "out") =>
        /\ \A k \in probe.inpainted : ContourArea(k) < GapAreaThreshold
        /\ ContourArea(probe.c) >= MinContourArea => probe.inpainted = {}

-----------------------------------------------------------------------------
\* The sessions in which the fill check box is never toggled.
NoToggleNext ==
    \/ \E photo \in Photos, fault \in Faults : generateColoringPage(photo, fault)
    \/ \E p \in Points, b \in Buttons : mousePressEvent(p, b)
    \/ \E p \in Points : mouseMoveEvent(p)
    \/ \E b \in Buttons : mouseReleaseEvent(b)
    \/ \E p \in Points, fault \in FillFaults : mouseDoubleClickEvent(p, fault)
    \/ \E c \in Colors : setFillColor(c)
    \/ undoLastAction
    \/ \E savePath \in SavePaths : saveImage(savePath)

NoToggleSpec == Init /\ [][NoToggleNext]_vars

\* C18: the tool starts in draw mode, so in a session with no toggle a
\* double-click fills nothing and leaves the history as it is.
C18_NoFillWithoutToggle ==
    [][ \A p \in Points, f \in FillFaults : mouseDoubleClickEvent(p, f) =>
            /\ lastOp' # "fillOk"
            /\ UNCHANGED <<heap, coloringPage, coloringPageHistory>> ]_vars

-----------------------------------------------------------------------------
\* C19: after every event, a non-null drawingImage is a view of the live
\* buffer of the current working raster, never of a buffer that has been
\* replaced or released.
C19_ViewOfLiveRaster ==
    drawingImage # NullImage => ShowsPage(heap, coloringPage, drawingImage)
====
